---------------------------- MODULE Spec2Model ----------------------------
(***************************************************************************)
(* Model of packages/plugin-dm/sources/DmInstaller.ts: the DM installer    *)
(* of the package manager.  It places packages (vendor copy or reference), *)
(* keeps a ledger of locations and dependencies, and writes the path map   *)
(* and the aggregated include file at the end of the install.              *)
(*                                                                         *)
(* Paths are sequences of segments; absolute paths start at the root.      *)
(* The filesystem is a function from absolute paths to nodes.              *)
(*                                                                         *)
(* Spec runs every handler call to completion before the next one starts.  *)
(* SpecAsync splits the handlers at their await points, so that calls the  *)
(* host starts concurrently interleave; tasks holds the latest call of each *)
(* package and the latest finalizeInstall call.                            *)
(* SpecRuns adds the construction of a new installer over the same disk.   *)
(* finalized records that finalizeInstall has begun in this run.           *)
(***************************************************************************)
EXTENDS Integers, Sequences, FiniteSets, TLC

VARIABLES enabled, dependencies, fs, call, ops, ncalls, tasks, finalized

vars == <<enabled, dependencies, fs, call, ops, ncalls, tasks, finalized>>

(***************************************************************************)
(* Bounds                                                                  *)
(***************************************************************************)
\* number of handler calls the host makes in one run
MaxCalls == 4
\* longest dependency list passed to attachInternalDependencies
MaxEdges == 1

(***************************************************************************)
(* ppath: path arithmetic                                                  *)
(***************************************************************************)
RECURSIVE NormalizeFrom(_, _)
NormalizeFrom(acc, rest) ==
  IF rest = <<>> THEN acc
  ELSE LET h == Head(rest) IN
       IF h = "." \/ h = "" THEN NormalizeFrom(acc, Tail(rest))
       ELSE IF h = ".."
            THEN NormalizeFrom(IF acc = <<>> THEN <<>> ELSE SubSeq(acc, 1, Len(acc) - 1),
                               Tail(rest))
            ELSE NormalizeFrom(Append(acc, h), Tail(rest))

\* ppath.resolve(base, p) for an absolute base and a relative p
resolve(base, p) == NormalizeFrom(<<>>, base \o p)

\* ppath.join(a, b)
join(a, b) == NormalizeFrom(<<>>, a \o b)

\* ppath.dirname(p)
dirname(p) == IF p = <<>> THEN <<>> ELSE SubSeq(p, 1, Len(p) - 1)

RECURSIVE CommonLen(_, _)
CommonLen(a, b) ==
  IF a = <<>> \/ b = <<>> \/ Head(a) # Head(b) THEN 0
  ELSE 1 + CommonLen(Tail(a), Tail(b))

\* ppath.relative(from, to) for two absolute paths
relative(from, to) ==
  LET k == CommonLen(from, to) IN
  [i \in 1..(Len(from) - k) |-> ".."] \o SubSeq(to, k + 1, Len(to))

IsPrefix(a, b) == Len(a) <= Len(b) /\ SubSeq(b, 1, Len(a)) = a

(***************************************************************************)
(* The project and the resolved packages the host hands to the installer   *)
(***************************************************************************)
HARD == "HARD"
SOFT == "SOFT"

\* opts.project.cwd
cwd == <<"proj">>

Packages == {"pkgA", "pkgB", "wsA", "wsH"}

\* pkg.linkType
linkType(p) == IF p \in {"pkgA", "pkgC", "wsH"} THEN HARD ELSE SOFT

\* Boolean(opts.project.tryWorkspaceByLocator(pkg))
tryWorkspaceByLocator(p) == p \in {"wsA", "wsH"}

\* fetchResult.packageFs.getRealPath()
getRealPath(p) ==
  CASE p = "pkgA" -> <<"cache", "pkgA.zip">>
    [] p = "pkgC" -> <<"cache", "pkgC.zip">>
    [] p = "pkgB" -> <<"ext", "pkgB">>
    [] p = "wsA"  -> <<"proj">>
    [] OTHER      -> <<"proj", "packages", "wsH">>

\* fetchResult.prefixPath
prefixPath(p) ==
  CASE p = "pkgA" -> <<"node_modules", "pkgA">>
    [] p = "pkgC" -> <<"node_modules", "pkgC">>
    [] OTHER      -> <<".">>

\* the files of fetchResult.packageFs, by path inside that filesystem
packageFs(p) ==
  CASE p = "pkgA" -> (<<"node_modules", "pkgA", "a.txt">> :> "v1") @@
                     (<<"node_modules", "pkgA", "includes.dm">> :> "v1")
    [] p = "pkgC" -> (<<"node_modules", "pkgC", "a.txt">> :> "v1")
    [] p = "pkgB" -> (<<"a.txt">> :> "v1")
    [] p = "wsA"  -> (<<"includes.dm">> :> "v1")
    [] OTHER      -> (<<"a.txt">> :> "v1")

\* the files below the prefix path, by path relative to it
SourceFiles(p) ==
  LET pre == NormalizeFrom(<<>>, prefixPath(p))
      under == {f \in DOMAIN packageFs(p) : IsPrefix(pre, f) /\ f # pre}
  IN  [r \in {relative(pre, f) : f \in under} |-> packageFs(p)[pre \o r]]

(***************************************************************************)
(* paths.ts                                                                *)
(***************************************************************************)
getVendorPath == join(cwd, <<".vendor">>)

getVendoredPackagePath(p) == join(getVendorPath, <<p>>)

getPathmapPath == join(getVendorPath, <<"pathmap.json">>)

getIncludePath == join(cwd, <<"includes.generated.dm">>)

(***************************************************************************)
(* xfs: the filesystem                                                     *)
(***************************************************************************)
Dir == [kind |-> "dir"]
File(data) == [kind |-> "file", data |-> data]

existsSync(f, path) == path \in DOMAIN f

Ancestors(path) == {SubSeq(path, 1, i) : i \in 1..Len(path)}

\* xfs.mkdirPromise(path, {recursive: true})
mkdirp(f, path) ==
  [q \in DOMAIN f \cup Ancestors(path) |-> IF q \in DOMAIN f THEN f[q] ELSE Dir]

\* xfs.writeFilePromise(path, data)
writeFile(f, path, data) ==
  [q \in DOMAIN f \cup {path} |-> IF q = path THEN File(data) ELSE f[q]]

\* xfs.removeSync(path, {recursive: true})
removeRecursive(f, path) ==
  [q \in {r \in DOMAIN f : ~IsPrefix(path, r)} |-> f[q]]

\* xfs.copyPromise(destination, source, {baseFs, overwrite: false})
copyNoOverwrite(f, destination, files) ==
  LET g == mkdirp(f, destination)
      new == {join(destination, r) : r \in DOMAIN files}
  IN  [q \in DOMAIN g \cup new |->
         IF q \in DOMAIN g THEN g[q] ELSE File(files[relative(destination, q)])]

(***************************************************************************)
(* The ledger: a Map, iterated in insertion order                          *)
(***************************************************************************)
Keys(m) == {m[i].locatorHash : i \in DOMAIN m}

IndexOf(m, h) == CHOOSE i \in DOMAIN m : m[i].locatorHash = h

\* Map.prototype.get
MapGet(m, h) == m[IndexOf(m, h)]

\* Map.prototype.set: a present key keeps its position
MapSet(m, h, e) ==
  IF h \in Keys(m) THEN [m EXCEPT ![IndexOf(m, h)] = e] ELSE Append(m, e)

(***************************************************************************)
(* Initial state: a freshly constructed installer over a project whose     *)
(* vendor directory may hold anything from earlier runs or hand edits      *)
(***************************************************************************)
Bytes == {"v1", "v2"}

VendorFileNames == {<<"a.txt">>, <<"includes.dm">>}

\* the project tree outside the vendor directory
BaseFs ==
  (<<"proj">> :> Dir) @@ (<<"proj", "packages">> :> Dir) @@
  (<<"proj", "packages", "wsH">> :> Dir) @@
  (<<"proj", "packages", "wsH", "a.txt">> :> File("v1")) @@
  (<<"proj", "includes.dm">> :> File("v1")) @@
  (<<"ext">> :> Dir) @@ (<<"ext", "pkgB">> :> Dir) @@
  (<<"ext", "pkgB", "a.txt">> :> File("v1")) @@
  (<<"cache">> :> Dir) @@ (<<"cache", "pkgA.zip">> :> File("zip"))

\* the states the vendor directory of pkgA can be in before the run
InitialVendor ==
  {BaseFs, mkdirp(BaseFs, getVendorPath)} \cup
  { LET g == mkdirp(BaseFs, getVendoredPackagePath("pkgA")) IN
    [q \in DOMAIN g \cup {join(getVendoredPackagePath("pkgA"), n) : n \in S} |->
       IF q \in DOMAIN g THEN g[q]
       ELSE File(b[relative(getVendoredPackagePath("pkgA"), q)])]
    : S \in SUBSET VendorFileNames, b \in [VendorFileNames -> Bytes] }

\* the path map and the include file an earlier run left behind
StalePathMap == <<[key |-> "pkgOld", value |-> <<".vendor", "pkgOld">>]>>

StaleIncludes == << <<"/*!">>, <<"#include", ".vendor", "pkgOld", "includes.dm">> >>

WithArtifacts(f) ==
  writeFile(writeFile(mkdirp(f, getVendorPath), getPathmapPath, StalePathMap),
            getIncludePath, StaleIncludes)

NoCall == [op |-> "new", pkg |-> "", edges |-> <<>>, error |-> "", location |-> <<>>]

\* new DmInstaller(opts): the flag is read from the configuration
Init ==
  /\ enabled \in BOOLEAN
  /\ dependencies = <<>>
  /\ fs \in InitialVendor \cup {WithArtifacts(f) : f \in InitialVendor}
  /\ call = NoCall
  /\ ops = <<>>
  /\ ncalls = 0
  /\ tasks = <<>>
  /\ finalized = FALSE

(***************************************************************************)
(* installPackage                                                          *)
(***************************************************************************)
isHardLinkIgnoringWorkspace(p) == linkType(p) = HARD

\* const isHardLink
isHardLink(p) == linkType(p) = HARD /\ ~tryWorkspaceByLocator(p)

vendorLocationShared(p) == getVendorPath

\* const vendorLocation
vendorLocation(p) == getVendoredPackagePath(p)

\* xfs.copyPromise with overwrite: true, for comparison
copyOverwrite(f, destination, files) ==
  LET g == mkdirp(f, destination)
      new == {join(destination, r) : r \in DOMAIN files}
  IN  [q \in DOMAIN g \cup new |->
         IF q \in new THEN File(files[relative(destination, q)]) ELSE g[q]]

vendorMkdirOnly(f, p) ==
  IF isHardLink(p) THEN mkdirp(f, vendorLocation(p)) ELSE f

vendorOverwriting(f, p) ==
  IF isHardLink(p)
  THEN copyOverwrite(mkdirp(f, vendorLocation(p)), vendorLocation(p), SourceFiles(p))
  ELSE f

\* if (isHardLink) { mkdirPromise; copyPromise }: the filesystem afterwards
vendor(f, p) ==
  IF isHardLink(p)
  THEN copyNoOverwrite(mkdirp(f, vendorLocation(p)), vendorLocation(p), SourceFiles(p))
  ELSE f

vendorOps(p) ==
  IF isHardLink(p)
  THEN <<[op |-> "mkdir", path |-> vendorLocation(p)],
         [op |-> "copy", path |-> vendorLocation(p)]>>
  ELSE <<>>

packageLocationAlwaysVendor(p) == vendorLocation(p)

\* const packageLocation
packageLocation(p) ==
  IF isHardLink(p) THEN vendorLocation(p)
  ELSE resolve(getRealPath(p), prefixPath(p))

\* this.dependencies.set(pkg.locatorHash, {...})
register(deps, p) ==
  MapSet(deps, p, [locatorHash |-> p,
                   packageLocation |-> packageLocation(p),
                   packageDependencies |-> {}])

\* the body of installPackage after the feature check
place(p) ==
  /\ fs' = vendor(fs, p)
  /\ ops' = vendorOps(p)
  /\ dependencies' = register(dependencies, p)
  /\ call' = [op |-> "installPackage", pkg |-> p, edges |-> <<>>,
              error |-> "", location |-> packageLocation(p)]

installWithoutFeatureCheck(p) == place(p)

\* throw new UsageError(...)
throwUsageError(p) ==
  /\ call' = [op |-> "installPackage", pkg |-> p, edges |-> <<>>,
              error |-> "UsageError", location |-> <<>>]
  /\ ops' = <<>>
  /\ UNCHANGED <<dependencies, fs>>

installPackageGuarded(p) ==
  /\ ncalls < MaxCalls
  /\ ncalls' = ncalls + 1
  /\ UNCHANGED <<enabled, tasks, finalized>>
  /\ IF ~enabled \/ finalized THEN throwUsageError(p) ELSE place(p)

installPackage(p) ==
  /\ ncalls < MaxCalls
  /\ ncalls' = ncalls + 1
  /\ UNCHANGED <<enabled, tasks, finalized>>
  /\ IF ~enabled THEN throwUsageError(p) ELSE place(p)

(***************************************************************************)
(* attachInternalDependencies                                              *)
(***************************************************************************)
\* the locators the dependency lists are drawn from
DepIds == {"pkgB", "wsH"}

\* the dependencies argument: the locator of each [Descriptor, Locator] pair
EdgeLists == UNION {[1..n -> DepIds] : n \in 0..MaxEdges}

Range(s) == {s[i] : i \in DOMAIN s}

replaceAll(set, edges) == Range(edges)

\* the for loop over the dependencies: Set.prototype.add of each locatorHash
addAll(set, edges) == set \cup Range(edges)

registerOnAttach(p, edges) ==
  /\ dependencies' = Append(dependencies,
                            [locatorHash |-> p,
                             packageLocation |-> packageLocation(p),
                             packageDependencies |-> Range(edges)])
  /\ call' = [op |-> "attachInternalDependencies", pkg |-> p, edges |-> edges,
              error |-> "", location |-> <<>>]

\* throw new Error(`Assertion failed: Expected locator to be registered ...`)
throwUnregistered(p, edges) ==
  /\ call' = [op |-> "attachInternalDependencies", pkg |-> p, edges |-> edges,
              error |-> "AssertionError", location |-> <<>>]
  /\ UNCHANGED dependencies

attachInternalDependencies(p, edges) ==
  /\ ncalls < MaxCalls
  /\ ncalls' = ncalls + 1
  /\ ops' = <<>>
  /\ UNCHANGED <<enabled, fs, tasks, finalized>>
  /\ IF p \notin Keys(dependencies)
     THEN throwUnregistered(p, edges)
     ELSE /\ dependencies' =
               [dependencies EXCEPT ![IndexOf(dependencies, p)].packageDependencies =
                  addAll(@, edges)]
          /\ call' = [op |-> "attachInternalDependencies", pkg |-> p, edges |-> edges,
                      error |-> "", location |-> <<>>]

(***************************************************************************)
(* finalizeInstall, writePathMap, writeIncludes                            *)
(***************************************************************************)
PathMapDataFromVendorRoot(deps) ==
  [i \in DOMAIN deps |->
     [key |-> deps[i].locatorHash,
      value |-> relative(getVendorPath, deps[i].packageLocation)]]

\* the object built by the loop of writePathMap, as the list of its members
PathMapData(deps) ==
  [i \in DOMAIN deps |->
     [key |-> deps[i].locatorHash, value |-> relative(cwd, deps[i].packageLocation)]]

\* the file written by writePathMap
writePathMap(f, deps) == writeFile(f, getPathmapPath, PathMapData(deps))

includeDirName == dirname(getIncludePath)

packageIncludePath(e) == join(e.packageLocation, <<"includes.dm">>)

RECURSIVE IncludeListUnchecked(_, _)
IncludeListUnchecked(f, deps) ==
  IF deps = <<>> THEN <<>>
  ELSE <<relative(includeDirName, packageIncludePath(Head(deps)))>>
       \o IncludeListUnchecked(f, Tail(deps))

\* the first loop of writeIncludes
RECURSIVE IncludeList(_, _)
IncludeList(f, deps) ==
  IF deps = <<>> THEN <<>>
  ELSE IF ~existsSync(f, packageIncludePath(Head(deps)))
       THEN IncludeList(f, Tail(deps))
       ELSE <<relative(includeDirName, packageIncludePath(Head(deps)))>>
            \o IncludeList(f, Tail(deps))

Banner ==
  << <<"/*!">>,
     <<" * This file is auto generated by DM installer (do not edit).">>,
     <<" */">>,
     <<"">> >>

IncludeLine(path) == <<"#include">> \o path

\* the text assembled from an include list
IncludeText(list) == Banner \o [i \in DOMAIN list |-> IncludeLine(list[i])]

\* the text assembled by writeIncludes, as the list of its lines
IncludeContent(f, deps) ==
  LET list == IncludeList(f, deps) IN
  Banner \o [i \in DOMAIN list |-> IncludeLine(list[i])]

\* the files written by writeIncludes
writeIncludes(f, deps) ==
  writeFile(mkdirp(f, includeDirName), getIncludePath, IncludeContent(f, deps))

cleanupSkipped(f) == f

\* the disabled branch of finalizeInstall: removeSync of the vendor path
disabledCleanup(f) == removeRecursive(f, getVendorPath)

finalizeInstall ==
  /\ ncalls < MaxCalls
  /\ ncalls' = ncalls + 1
  /\ UNCHANGED <<enabled, dependencies, tasks>>
  /\ finalized' = TRUE
  /\ call' = [op |-> "finalizeInstall", pkg |-> "", edges |-> <<>>,
              error |-> "", location |-> <<>>]
  /\ IF ~enabled
     THEN /\ fs' = disabledCleanup(fs)
          /\ ops' = <<[op |-> "remove", path |-> getVendorPath]>>
     ELSE /\ fs' = writePathMap(writeIncludes(fs, dependencies), dependencies)
          /\ ops' = <<[op |-> "mkdir", path |-> includeDirName],
                      [op |-> "writeFile", path |-> getIncludePath],
                      [op |-> "writeFile", path |-> getPathmapPath]>>

Next ==
  \/ \E p \in Packages : installPackage(p)
  \/ \E p \in Packages, edges \in EdgeLists : attachInternalDependencies(p, edges)
  \/ finalizeInstall

Spec == Init /\ [][Next]_vars

(***************************************************************************)
(* Several runs over the same project: each run constructs a new installer *)
(* and reads the flag again; the disk is what the earlier runs left        *)
(***************************************************************************)
\* new DmInstaller(opts) of a later run
newInstaller ==
  /\ ncalls < MaxCalls
  /\ ncalls' = ncalls + 1
  /\ enabled' \in BOOLEAN
  /\ dependencies' = <<>>
  /\ call' = NoCall
  /\ ops' = <<>>
  /\ tasks' = <<>>
  /\ finalized' = FALSE
  /\ UNCHANGED fs

\* a project in which no run has vendored or generated anything yet
InitRuns == Init /\ fs \in {BaseFs, mkdirp(BaseFs, getVendorPath)}

NextRuns == Next \/ newInstaller

SpecRuns == InitRuns /\ [][NextRuns]_vars

(***************************************************************************)
(* The handlers split at their await points.  A call runs to its first     *)
(* await when the host makes it; each later step is the completion of the  *)
(* awaited filesystem operation together with the code up to the next      *)
(* await.  Any awaited operation may fail instead.  The host has at most   *)
(* one installPackage call per package and one finalizeInstall call in     *)
(* flight at a time.  attachInternalDependencies has no await: it runs to   *)
(* completion in one step and is left to Spec.                             *)
(***************************************************************************)
\* the packages the host installs concurrently
AsyncPackages == {"pkgA", "pkgC", "wsA"}

\* the slot of the finalizeInstall call in tasks
Finalize == "finalizeInstall"

InFlight(n) == n \in DOMAIN tasks /\ tasks[n].pc \notin {"done", "failed"}

\* tasks with the call n started anew
Started(n, t) == (n :> t) @@ tasks

NewTask(op, p, pc) ==
  [op |-> op, pkg |-> p, stage |-> 0, pc |-> pc, error |-> "",
   seen |-> <<>>, incList |-> <<>>, mapData |-> <<>>, written |-> <<>>]

KeySeq(deps) == [i \in DOMAIN deps |-> deps[i].locatorHash]

\* a file opened for writing and not yet written completely
Partial(data) == [kind |-> "partial", data |-> data]

\* writeFilePromise opens the file with flag w: the old content is gone
truncate(f, path) ==
  [q \in DOMAIN f \cup {path} |-> IF q = path THEN Partial(<<>>) ELSE f[q]]

callInstallPackage(p) ==
  /\ ncalls < MaxCalls
  /\ ~InFlight(p)
  /\ ncalls' = ncalls + 1
  /\ UNCHANGED <<enabled, finalized>>
  /\ IF ~enabled
     THEN /\ throwUsageError(p)
          /\ tasks' = Started(p, [NewTask("installPackage", p, "failed")
                                     EXCEPT !.error = "UsageError"])
     ELSE IF isHardLink(p)
          THEN /\ tasks' = Started(p, NewTask("installPackage", p, "mkdir"))
               /\ ops' = <<>>
               /\ UNCHANGED <<dependencies, fs, call>>
          ELSE /\ place(p)
               /\ tasks' = Started(p, NewTask("installPackage", p, "done"))

\* await xfs.mkdirPromise(vendorLocation, {recursive: true}) completes
installMkdirDone(n) ==
  /\ tasks[n].op = "installPackage" /\ tasks[n].pc = "mkdir"
  /\ fs' = mkdirp(fs, vendorLocation(tasks[n].pkg))
  /\ ops' = <<[op |-> "mkdir", path |-> vendorLocation(tasks[n].pkg)]>>
  /\ tasks' = [tasks EXCEPT ![n].pc = "copy"]
  /\ UNCHANGED <<enabled, dependencies, call, ncalls, finalized>>

\* await xfs.copyPromise(vendorLocation, prefixPath, ...) completes
installCopyDone(n) ==
  /\ tasks[n].op = "installPackage" /\ tasks[n].pc = "copy"
  /\ fs' = copyNoOverwrite(fs, vendorLocation(tasks[n].pkg), SourceFiles(tasks[n].pkg))
  /\ ops' = <<[op |-> "copy", path |-> vendorLocation(tasks[n].pkg)]>>
  /\ tasks' = [tasks EXCEPT ![n].pc = "insert"]
  /\ UNCHANGED <<enabled, dependencies, call, ncalls, finalized>>

\* the rest of installPackage: the ledger entry and the return value
installReturn(n) ==
  /\ tasks[n].op = "installPackage" /\ tasks[n].pc = "insert"
  /\ dependencies' = register(dependencies, tasks[n].pkg)
  /\ call' = [op |-> "installPackage", pkg |-> tasks[n].pkg, edges |-> <<>>,
              error |-> "", location |-> packageLocation(tasks[n].pkg)]
  /\ ops' = <<>>
  /\ tasks' = [tasks EXCEPT ![n].pc = "done"]
  /\ UNCHANGED <<enabled, fs, ncalls, finalized>>

installFailsButRecords(n) ==
  /\ tasks' = [tasks EXCEPT ![n].pc = "failed", ![n].error = "IOError"]
  /\ call' = [op |-> "installPackage", pkg |-> tasks[n].pkg, edges |-> <<>>,
              error |-> "IOError", location |-> <<>>]
  /\ dependencies' = register(dependencies, tasks[n].pkg)

\* the awaited operation rejects: installPackage rejects with its error
installFails(n) ==
  /\ tasks' = [tasks EXCEPT ![n].pc = "failed", ![n].error = "IOError"]
  /\ call' = [op |-> "installPackage", pkg |-> tasks[n].pkg, edges |-> <<>>,
              error |-> "IOError", location |-> <<>>]
  /\ UNCHANGED dependencies

\* what a failed mkdir or a failed copy can leave on disk
FailedVendorOutcomes(f, n) ==
  IF tasks[n].pc = "mkdir" THEN {f}
  ELSE LET files == SourceFiles(tasks[n].pkg) IN
       { copyNoOverwrite(f, vendorLocation(tasks[n].pkg), [r \in S |-> files[r]])
           : S \in (SUBSET DOMAIN files) \ {DOMAIN files} }

installIoError(n) ==
  /\ tasks[n].op = "installPackage" /\ tasks[n].pc \in {"mkdir", "copy"}
  /\ fs' \in FailedVendorOutcomes(fs, n)
  /\ ops' = <<>>
  /\ installFails(n)
  /\ UNCHANGED <<enabled, ncalls, finalized>>

finalizeStagesSwapped == <<"writePathMap", "writeIncludes">>

\* await this.writeIncludes(); await this.writePathMap();
finalizeStages == <<"writeIncludes", "writePathMap">>

stageTarget(name) == IF name = "writeIncludes" THEN getIncludePath ELSE getPathmapPath

beginStageSkippingFirst(t, name, f, deps) ==
  IF name = "writeIncludes"
  THEN [t EXCEPT !.pc = "mkdir", !.incList = IncludeList(f, SubSeq(deps, 2, Len(deps))),
                 !.seen = KeySeq(deps)]
  ELSE [t EXCEPT !.pc = "open", !.mapData = PathMapData(deps)]

\* the code of a stage up to its first await: the ledger is read here
beginStage(t, name, f, deps) ==
  IF name = "writeIncludes"
  THEN [t EXCEPT !.pc = "mkdir", !.incList = IncludeList(f, deps), !.seen = KeySeq(deps)]
  ELSE [t EXCEPT !.pc = "open", !.mapData = PathMapData(deps)]

FinalizeResult(err) ==
  [op |-> "finalizeInstall", pkg |-> "", edges |-> <<>>, error |-> err, location |-> <<>>]

callFinalizeInstall ==
  /\ ncalls < MaxCalls
  /\ ~InFlight(Finalize)
  /\ ncalls' = ncalls + 1
  /\ finalized' = TRUE
  /\ UNCHANGED <<enabled, dependencies>>
  /\ IF ~enabled
     THEN /\ fs' = disabledCleanup(fs)
          /\ ops' = <<[op |-> "remove", path |-> getVendorPath]>>
          /\ call' = FinalizeResult("")
          /\ tasks' = Started(Finalize, NewTask("finalizeInstall", "", "done"))
     ELSE /\ tasks' = Started(Finalize,
                              beginStage([NewTask("finalizeInstall", "", "") EXCEPT !.stage = 1],
                                         finalizeStages[1], fs, dependencies))
          /\ ops' = <<>>
          /\ UNCHANGED <<fs, call>>

\* await xfs.mkdirPromise(includeDirName, {recursive: true}) completes
finalizeMkdirDone(n) ==
  /\ tasks[n].op = "finalizeInstall" /\ tasks[n].pc = "mkdir"
  /\ fs' = mkdirp(fs, includeDirName)
  /\ ops' = <<[op |-> "mkdir", path |-> includeDirName]>>
  /\ tasks' = [tasks EXCEPT ![n].pc = "open"]
  /\ UNCHANGED <<enabled, dependencies, call, ncalls, finalized>>

\* xfs.writeFilePromise has opened its file
finalizeOpenDone(n) ==
  /\ tasks[n].op = "finalizeInstall" /\ tasks[n].pc = "open"
  /\ LET target == stageTarget(finalizeStages[tasks[n].stage]) IN
     /\ fs' = truncate(fs, target)
     /\ ops' = <<[op |-> "open", path |-> target]>>
     /\ tasks' = [tasks EXCEPT ![n].pc = "write",
                               ![n].written = Append(@, target)]
  /\ UNCHANGED <<enabled, dependencies, call, ncalls, finalized>>

\* await xfs.writeFilePromise(...) completes; the next stage begins or the call returns
finalizeWriteDone(n) ==
  /\ tasks[n].op = "finalizeInstall" /\ tasks[n].pc = "write"
  /\ LET name == finalizeStages[tasks[n].stage] IN
     /\ fs' = IF name = "writeIncludes"
              THEN writeFile(fs, getIncludePath, IncludeText(tasks[n].incList))
              ELSE writeFile(fs, getPathmapPath, tasks[n].mapData)
     /\ ops' = <<[op |-> "writeFile", path |-> stageTarget(name)]>>
  /\ IF tasks[n].stage < Len(finalizeStages)
     THEN /\ tasks' = [tasks EXCEPT ![n] =
                         beginStage([@ EXCEPT !.stage = @ + 1],
                                    finalizeStages[tasks[n].stage + 1], fs', dependencies)]
          /\ UNCHANGED call
     ELSE /\ tasks' = [tasks EXCEPT ![n].pc = "done"]
          /\ call' = FinalizeResult("")
  /\ UNCHANGED <<enabled, dependencies, ncalls, finalized>>

\* the awaited operation rejects: finalizeInstall rejects with its error
finalizeIoError(n) ==
  /\ tasks[n].op = "finalizeInstall" /\ tasks[n].pc \in {"mkdir", "open", "write"}
  /\ tasks' = [tasks EXCEPT ![n].pc = "failed", ![n].error = "IOError"]
  /\ call' = FinalizeResult("IOError")
  /\ ops' = <<>>
  /\ UNCHANGED <<enabled, dependencies, fs, ncalls, finalized>>

\* a project never installed, or one whose vendored pkgA was edited by hand
InitAsync ==
  Init /\ fs \in {BaseFs,
                  writeFile(mkdirp(BaseFs, getVendoredPackagePath("pkgA")),
                            join(getVendoredPackagePath("pkgA"), <<"a.txt">>), "v2")}

NextAsync ==
  \/ \E p \in AsyncPackages : callInstallPackage(p)
  \/ callFinalizeInstall
  \/ \E n \in DOMAIN tasks : installMkdirDone(n)
  \/ \E n \in DOMAIN tasks : installCopyDone(n)
  \/ \E n \in DOMAIN tasks : installReturn(n)
  \/ \E n \in DOMAIN tasks : installIoError(n)
  \/ \E n \in DOMAIN tasks : finalizeMkdirDone(n)
  \/ \E n \in DOMAIN tasks : finalizeOpenDone(n)
  \/ \E n \in DOMAIN tasks : finalizeWriteDone(n)
  \/ \E n \in DOMAIN tasks : finalizeIoError(n)

SpecAsync == InitAsync /\ [][NextAsync]_vars

(***************************************************************************)
(* Helpers of the properties                                               *)
(***************************************************************************)
\* the files below a directory, by path relative to it
TreeAt(f, dir) ==
  LET under == {q \in DOMAIN f : IsPrefix(dir, q) /\ q # dir /\ f[q].kind = "file"}
  IN  [r \in {relative(dir, q) : q \in under} |-> f[dir \o r].data]

\* everything at or below the vendor root
VendorTree(f) == [q \in {r \in DOMAIN f : IsPrefix(getVendorPath, r)} |-> f[q]]

Installed == call.op = "installPackage" /\ call.error = ""

InstallStep == call'.op = "installPackage"

AttachStep == call'.op = "attachInternalDependencies"

FinalizeStep == call'.op = "finalizeInstall"

HardNonWorkspace(p) == linkType(p) = HARD /\ ~tryWorkspaceByLocator(p)

\* JSON.parse of the path map file
ParsePathMap(data) ==
  [k \in {data[i].key : i \in DOMAIN data} |->
     data[CHOOSE i \in DOMAIN data : data[i].key = k /\ \A j \in DOMAIN data :
            data[j].key = k => j <= i].value]

(***************************************************************************)
(* C1: with the feature enabled, installPackage copies the package into    *)
(* the vendor tree exactly when its link type is HARD and it is not a      *)
(* workspace; in every other case the call creates no directory and copies *)
(* nothing (the filesystem is left as it was).                             *)
(***************************************************************************)
C1_CopyIffHardNonWorkspace ==
  [][(InstallStep /\ enabled) =>
       LET p == call'.pkg IN
       IF HardNonWorkspace(p)
       THEN /\ getVendoredPackagePath(p) \in DOMAIN fs'
            /\ \A r \in DOMAIN SourceFiles(p) :
                 join(getVendoredPackagePath(p), r) \in DOMAIN fs'
            /\ \E i \in DOMAIN ops' : ops'[i].op = "copy"
       ELSE /\ fs' = fs
            /\ ops' = <<>>]_vars

C1_Witness ==
  /\ Installed
  /\ call.pkg = "wsH"
  /\ {"pkgA", "wsH"} \subseteq Keys(dependencies)
  /\ join(getVendoredPackagePath("pkgA"), <<"a.txt">>) \in DOMAIN fs
  /\ getVendoredPackagePath("wsH") \notin DOMAIN fs

(***************************************************************************)
(* C2 as claimed: after installPackage of a hard, non-workspace package    *)
(* the location is the vendor path and the content there is byte-identical *)
(* to the source content, whatever the vendor directory held before.       *)
(***************************************************************************)
C2_Original ==
  (Installed /\ HardNonWorkspace(call.pkg)) =>
     /\ call.location = getVendoredPackagePath(call.pkg)
     /\ TreeAt(fs, call.location) = SourceFiles(call.pkg)

(***************************************************************************)
(* C2 amended: after installPackage of a hard, non-workspace package the   *)
(* location is the vendor path, and the content there is byte-identical    *)
(* to the source content provided every file found at that location before *)
(* the call already equalled the source file of the same name.             *)
(***************************************************************************)
C2_VendoredContentIdentical ==
  [][(InstallStep /\ call'.error = "" /\ HardNonWorkspace(call'.pkg)) =>
       LET p == call'.pkg
           before == TreeAt(fs, getVendoredPackagePath(p))
       IN  /\ call'.location = getVendoredPackagePath(p)
           /\ MapGet(dependencies', p).packageLocation = getVendoredPackagePath(p)
           /\ (\A r \in DOMAIN before :
                 r \in DOMAIN SourceFiles(p) /\ before[r] = SourceFiles(p)[r])
              => TreeAt(fs', getVendoredPackagePath(p)) = SourceFiles(p)]_vars

C2_Witness ==
  /\ Installed
  /\ call.pkg = "pkgA"
  /\ call.location = <<"proj", ".vendor", "pkgA">>
  /\ TreeAt(fs, <<"proj", ".vendor", "pkgA">>) =
       (<<"a.txt">> :> "v1") @@ (<<"includes.dm">> :> "v1")

(***************************************************************************)
(* C3: placement never overwrites: every file at the vendor destination    *)
(* before installPackage has the same content after it; and installing an  *)
(* identity that is already placed succeeds and leaves the vendor tree as  *)
(* it was.                                                                 *)
(***************************************************************************)
C3_NoClobberIdempotent ==
  [][(InstallStep /\ enabled) =>
       LET p == call'.pkg IN
       /\ \A q \in DOMAIN fs :
            IsPrefix(getVendoredPackagePath(p), q) => q \in DOMAIN fs' /\ fs'[q] = fs[q]
       /\ p \in Keys(dependencies) =>
            call'.error = "" /\ VendorTree(fs') = VendorTree(fs)]_vars

\* pkgA is installed again (it keeps its place before wsH) over a hand-edited file
C3_Witness ==
  /\ Installed
  /\ call.pkg = "pkgA"
  /\ Len(dependencies) = 2
  /\ dependencies[1].locatorHash = "pkgA"
  /\ fs[<<"proj", ".vendor", "pkgA", "a.txt">>].data = "v2"

(***************************************************************************)
(* C4: for a soft or workspace package the returned and the recorded       *)
(* location are the content filesystem's real path resolved with the       *)
(* prefix path, and the call leaves the vendor root as it was.             *)
(***************************************************************************)
C4_ReferencedInPlace ==
  [][(InstallStep /\ enabled /\
        (linkType(call'.pkg) = SOFT \/ tryWorkspaceByLocator(call'.pkg))) =>
       LET p == call'.pkg
           source == resolve(getRealPath(p), prefixPath(p))
       IN  /\ call'.error = ""
           /\ call'.location = source
           /\ MapGet(dependencies', p).packageLocation = source
           /\ VendorTree(fs') = VendorTree(fs)
           /\ getVendoredPackagePath(p) \notin DOMAIN fs']_vars

C4_Witness ==
  /\ Installed
  /\ call.pkg = "pkgB"
  /\ call.location = <<"ext", "pkgB">>
  /\ MapGet(dependencies, "pkgB").packageLocation = <<"ext", "pkgB">>
  /\ "wsH" \in Keys(dependencies)
  /\ MapGet(dependencies, "wsH").packageLocation = <<"proj", "packages", "wsH">>
  /\ getVendorPath \notin DOMAIN fs

(***************************************************************************)
(* C5: with the feature disabled every installPackage call fails with the  *)
(* usage error and changes neither the ledger nor the filesystem.          *)
(***************************************************************************)
C5_DisabledInstallFails ==
  [][(InstallStep /\ ~enabled) =>
       /\ call'.error = "UsageError"
       /\ dependencies' = dependencies
       /\ fs' = fs]_vars

C5_Witness ==
  /\ ~enabled
  /\ call.op = "installPackage"
  /\ call.pkg = "pkgA"
  /\ call.error = "UsageError"
  /\ dependencies = <<>>

(***************************************************************************)
(* C6: attachInternalDependencies for an identity without a ledger entry   *)
(* fails with the assertion error and leaves the ledger unchanged.         *)
(***************************************************************************)
C6_UnregisteredAttachFails ==
  [][(AttachStep /\ call'.pkg \notin Keys(dependencies)) =>
       /\ call'.error = "AssertionError"
       /\ dependencies' = dependencies]_vars

C6_Witness ==
  /\ call.op = "attachInternalDependencies"
  /\ call.error = "AssertionError"
  /\ call.pkg = "pkgB"
  /\ call.edges # <<>>
  /\ Keys(dependencies) = {"pkgA"}

(***************************************************************************)
(* C7: attachInternalDependencies on a placed identity makes its           *)
(* dependency set the union of the old set and the edges passed, keeps the *)
(* entry's location and position, and changes no other entry.              *)
(***************************************************************************)
C7_AttachIsUnion ==
  [][(AttachStep /\ call'.pkg \in Keys(dependencies)) =>
       LET p == call'.pkg
           i == IndexOf(dependencies, p)
       IN  /\ call'.error = ""
           /\ Len(dependencies') = Len(dependencies)
           /\ dependencies'[i].locatorHash = p
           /\ dependencies'[i].packageDependencies =
                dependencies[i].packageDependencies \cup
                  {call'.edges[k] : k \in DOMAIN call'.edges}
           /\ dependencies'[i].packageLocation = dependencies[i].packageLocation
           /\ \A j \in DOMAIN dependencies : j # i => dependencies'[j] = dependencies[j]]_vars

\* a second attach added wsH to a set that already held pkgB
C7_Witness ==
  /\ call.op = "attachInternalDependencies"
  /\ call.error = ""
  /\ call.pkg = "pkgA"
  /\ call.edges = <<"wsH">>
  /\ MapGet(dependencies, "pkgA").packageDependencies = {"pkgB", "wsH"}

(***************************************************************************)
(* C8: after an enabled finalizeInstall the path map file has exactly the  *)
(* ledger's identities as keys, and each value resolved against the        *)
(* project root is the recorded location of that identity.                 *)
(***************************************************************************)
C8_PathMapRoundTrip ==
  (call.op = "finalizeInstall" /\ enabled) =>
     /\ getPathmapPath \in DOMAIN fs
     /\ LET map == ParsePathMap(fs[getPathmapPath].data) IN
        /\ DOMAIN map = Keys(dependencies)
        /\ \A i \in DOMAIN dependencies :
             resolve(cwd, map[dependencies[i].locatorHash]) =
               dependencies[i].packageLocation

C8_Witness ==
  /\ call.op = "finalizeInstall"
  /\ enabled
  /\ Keys(dependencies) = {"pkgA", "pkgB", "wsA"}
  /\ ParsePathMap(fs[getPathmapPath].data) =
       ("pkgA" :> <<".vendor", "pkgA">>) @@ ("pkgB" :> <<"..", "ext", "pkgB">>) @@
       ("wsA" :> <<>>)

(***************************************************************************)
(* C9: the include file is the 4-line banner followed by one #include line *)
(* for each ledger entry whose location holds includes.dm, in ledger       *)
(* order, with the path relative to the include file's directory; entries  *)
(* without includes.dm add no line.                                        *)
(***************************************************************************)
HasIncludes(e) == join(e.packageLocation, <<"includes.dm">>) \in DOMAIN fs

C9_IncludeAggregation ==
  (call.op = "finalizeInstall" /\ enabled) =>
     /\ getIncludePath \in DOMAIN fs
     /\ LET data == fs[getIncludePath].data
            with == SelectSeq(dependencies, HasIncludes)
        IN  /\ Len(Banner) = 4
            /\ Len(data) = 4 + Len(with)
            /\ SubSeq(data, 1, 4) = Banner
            /\ \A i \in DOMAIN with :
                 data[4 + i] =
                   <<"#include">> \o
                     relative(dirname(getIncludePath),
                              with[i].packageLocation \o <<"includes.dm">>)

\* wsA then pkgB (no includes.dm) then pkgA: two lines, in that order
C9_Witness ==
  /\ call.op = "finalizeInstall"
  /\ enabled
  /\ Len(dependencies) = 3
  /\ dependencies[1].locatorHash = "wsA"
  /\ dependencies[2].locatorHash = "pkgB"
  /\ dependencies[3].locatorHash = "pkgA"
  /\ fs[getIncludePath].data =
       Banner \o << <<"#include", "includes.dm">>,
                    <<"#include", ".vendor", "pkgA", "includes.dm">> >>

(***************************************************************************)
(* C10: with the feature disabled finalizeInstall leaves no vendor root    *)
(* (nothing at or below it), whether or not it existed, and writes neither *)
(* the path map nor the include file: each is afterwards absent or as it   *)
(* was before the call.                                                    *)
(***************************************************************************)
C10_DisabledFinalizeRemovesVendor ==
  [][(FinalizeStep /\ ~enabled) =>
       /\ call'.error = ""
       /\ \A q \in DOMAIN fs' : ~IsPrefix(getVendorPath, q)
       /\ \A q \in {getPathmapPath, getIncludePath} :
            q \in DOMAIN fs' => q \in DOMAIN fs /\ fs'[q] = fs[q]
       /\ \A i \in DOMAIN ops' : ops'[i].op # "writeFile"]_vars

\* the vendor root of an earlier run is gone, the stale include file is untouched
C10_Witness ==
  /\ call.op = "finalizeInstall"
  /\ ~enabled
  /\ getVendorPath \notin DOMAIN fs
  /\ getPathmapPath \notin DOMAIN fs
  /\ getIncludePath \in DOMAIN fs
  /\ fs[getIncludePath].data = StaleIncludes

(***************************************************************************)
(* C14 as claimed: an identity that already has a ledger entry does not    *)
(* get a new entry created in its place by a later installPackage: the     *)
(* entry made by the first placement stays as it is.                       *)
(***************************************************************************)
C14_Original ==
  [][(InstallStep /\ call'.pkg \in Keys(dependencies)) =>
       MapGet(dependencies', call'.pkg) = MapGet(dependencies, call'.pkg)]_vars

(***************************************************************************)
(* C15 as claimed: once finalizeInstall has begun, no later call creates   *)
(* a ledger entry or changes an entry's location or dependency set.        *)
(***************************************************************************)
C15_Original == [][finalized => dependencies' = dependencies]_vars

(***************************************************************************)
(* C15 amended: finalizeInstall itself creates and changes no ledger       *)
(* entry; the finalized state is not guarded, so an installPackage or      *)
(* attachInternalDependencies call made after it takes effect as before.   *)
(***************************************************************************)
C15_FinalizeKeepsLedgerUnguarded ==
  [][/\ FinalizeStep => dependencies' = dependencies
     /\ (finalized /\ InstallStep /\ enabled) =>
          /\ call'.error = ""
          /\ call'.pkg \in Keys(dependencies')
          /\ MapGet(dependencies', call'.pkg).packageDependencies = {}
     /\ (finalized /\ AttachStep /\ call'.pkg \in Keys(dependencies)) =>
          /\ call'.error = ""
          /\ {call'.edges[k] : k \in DOMAIN call'.edges} \subseteq
               MapGet(dependencies', call'.pkg).packageDependencies]_vars

\* pkgB was placed after the path map had been written without it
C15_Witness ==
  /\ finalized
  /\ Installed
  /\ call.pkg = "pkgB"
  /\ "pkgB" \in Keys(dependencies)
  /\ getPathmapPath \in DOMAIN fs
  /\ "pkgB" \notin DOMAIN ParsePathMap(fs[getPathmapPath].data)

(***************************************************************************)
(* C19 as claimed: every identity keeps its entry and its dependency set   *)
(* only grows, whatever call is made, a repeated installPackage included.  *)
(***************************************************************************)
C19_Original ==
  [][\A i \in DOMAIN dependencies :
       /\ dependencies[i].locatorHash \in Keys(dependencies')
       /\ dependencies[i].packageDependencies \subseteq
            MapGet(dependencies', dependencies[i].locatorHash).packageDependencies]_vars

(***************************************************************************)
(* C20: the flag never changes after construction, and with the feature    *)
(* disabled the ledger stays empty, every attachInternalDependencies call  *)
(* fails with the assertion error and finalizeInstall writes no artifact.  *)
(***************************************************************************)
C20_DisabledLedgerStaysEmpty ==
  [][/\ enabled' = enabled
     /\ ~enabled =>
          /\ dependencies = <<>>
          /\ dependencies' = <<>>
          /\ AttachStep => call'.error = "AssertionError"
          /\ FinalizeStep =>
               /\ \A i \in DOMAIN ops' : ops'[i].op # "writeFile"
               /\ \A q \in DOMAIN fs' : q \in DOMAIN fs /\ fs'[q] = fs[q]]_vars

C20_Witness ==
  /\ ~enabled
  /\ finalized
  /\ call.op = "attachInternalDependencies"
  /\ call.error = "AssertionError"
  /\ ncalls >= 3
  /\ dependencies = <<>>

(***************************************************************************)
(* C11 as claimed: when an enabled run has vendored a package and written  *)
(* the path map and the include file, and a later run with the feature     *)
(* disabled calls finalizeInstall, then afterwards nothing is left at or   *)
(* below the vendor root and neither the path map file nor the include     *)
(* file exists.                                                            *)
(***************************************************************************)
VendoredAndGenerated(f) ==
  /\ \E p \in Packages :
       \E q \in DOMAIN f : IsPrefix(getVendoredPackagePath(p), q) /\ f[q].kind = "file"
  /\ getPathmapPath \in DOMAIN f
  /\ getIncludePath \in DOMAIN f

C11_Original ==
  [][(FinalizeStep /\ ~enabled /\ VendoredAndGenerated(fs)) =>
       /\ \A q \in DOMAIN fs' : ~IsPrefix(getVendorPath, q)
       /\ getPathmapPath \notin DOMAIN fs'
       /\ getIncludePath \notin DOMAIN fs']_vars

(***************************************************************************)
(* Helpers of the properties of the step-wise specification                *)
(***************************************************************************)
FinalizeStarted == enabled /\ Finalize \in DOMAIN tasks

FinalizeDone == FinalizeStarted /\ tasks[Finalize].pc = "done"

InSeq(x, sq) == \E i \in DOMAIN sq : sq[i] = x

CompleteFile(f, path) == path \in DOMAIN f /\ f[path].kind = "file"

\* the include list a reader derives from a path map and the disk
DerivedIncludeList(f, data) ==
  LET Has(m) == (resolve(cwd, m.value) \o <<"includes.dm">>) \in DOMAIN f
      with == SelectSeq(data, Has)
  IN  [i \in DOMAIN with |->
         relative(dirname(getIncludePath), resolve(cwd, with[i].value) \o <<"includes.dm">>)]

\* the task n has made a step, or has been started
Stepped(n) ==
  n \in DOMAIN tasks' /\ (n \notin DOMAIN tasks \/ tasks'[n] # tasks[n])

(***************************************************************************)
(* C12: an enabled finalizeInstall writes the include file first and the   *)
(* path map second: the path map is opened only after the include file of  *)
(* this call is complete (so not at all when the include generation        *)
(* fails), and the call returns only when both files are complete.         *)
(***************************************************************************)
C12_IncludesBeforePathMap ==
  FinalizeStarted =>
    LET t == tasks[Finalize] IN
    /\ t.written \in {<<>>, <<getIncludePath>>, <<getIncludePath, getPathmapPath>>}
    /\ InSeq(getPathmapPath, t.written) =>
         /\ CompleteFile(fs, getIncludePath)
         /\ fs[getIncludePath].data = IncludeText(t.incList)
    /\ t.pc = "done" =>
         /\ t.written = <<getIncludePath, getPathmapPath>>
         /\ CompleteFile(fs, getPathmapPath)
         /\ fs[getPathmapPath].data = t.mapData

C12_Witness ==
  /\ FinalizeDone
  /\ tasks[Finalize].written = <<getIncludePath, getPathmapPath>>
  /\ Keys(dependencies) = {"pkgA", "wsA"}
  /\ Len(fs[getIncludePath].data) = 6
  /\ Len(fs[getPathmapPath].data) = 2

(***************************************************************************)
(* C13 as claimed: at every step of writePathMap the file at the path map  *)
(* location is absent or a complete file (the previous or the new one),    *)
(* never a partially written one.                                          *)
(***************************************************************************)
C13_Original == getPathmapPath \in DOMAIN fs => fs[getPathmapPath].kind = "file"

(***************************************************************************)
(* C16 as claimed: the include file and the path map written by one        *)
(* finalizeInstall call are derived from the same ledger entries: the      *)
(* include file lists exactly the packages of the path map that have       *)
(* includes.dm, also when installPackage calls complete during the call.   *)
(***************************************************************************)
C16_Original ==
  FinalizeDone =>
    fs[getIncludePath].data =
      IncludeText(DerivedIncludeList(fs, fs[getPathmapPath].data))

(***************************************************************************)
(* C16 amended: the include file and the path map written by one           *)
(* finalizeInstall call are derived from the same ledger entries provided  *)
(* the ledger holds the same identities when writePathMap reads it as when *)
(* writeIncludes read it, i.e. no installPackage call added an entry in    *)
(* between.                                                                *)
(***************************************************************************)
C16_ConsistentWhenLedgerStable ==
  (FinalizeDone /\ tasks[Finalize].seen = [i \in DOMAIN tasks[Finalize].mapData |->
                                             tasks[Finalize].mapData[i].key]) =>
    fs[getIncludePath].data =
      IncludeText(DerivedIncludeList(fs, fs[getPathmapPath].data))

\* pkgC was in flight during the whole finalizeInstall call and has not completed
C16_Witness ==
  /\ FinalizeDone
  /\ tasks[Finalize].seen = <<"wsA", "pkgA">>
  /\ InFlight("pkgC")
  /\ fs[getIncludePath].data =
       Banner \o << <<"#include", "includes.dm">>,
                    <<"#include", ".vendor", "pkgA", "includes.dm">> >>

(***************************************************************************)
(* C17: under every interleaving of concurrent installPackage calls the    *)
(* ledger has one entry per identity, each at that package's own location, *)
(* every completed placement has its entry, and a step of the call for one *)
(* package changes nothing outside that package's vendor subdirectory      *)
(* (apart from creating the vendor root).                                  *)
(***************************************************************************)
OwnLocation(p) ==
  IF HardNonWorkspace(p) THEN <<"proj", ".vendor", p>>
  ELSE resolve(getRealPath(p), prefixPath(p))

C17_LedgerState ==
  /\ \A i, j \in DOMAIN dependencies :
       dependencies[i].locatorHash = dependencies[j].locatorHash => i = j
  /\ \A i \in DOMAIN dependencies :
       dependencies[i].packageLocation = OwnLocation(dependencies[i].locatorHash)
  /\ \A n \in DOMAIN tasks :
       (tasks[n].op = "installPackage" /\ tasks[n].pc = "done") =>
          n \in Keys(dependencies)

C17_OwnDirectoryOnly ==
  \A n \in AsyncPackages :
    Stepped(n) =>
      \A q \in DOMAIN fs' :
        (q \notin DOMAIN fs \/ fs'[q] # fs[q]) =>
           IsPrefix(<<"proj", ".vendor", n>>, q) \/ q = <<"proj", ".vendor">>

C17_ConcurrentInstallsIndependent ==
  []C17_LedgerState /\ [][C17_OwnDirectoryOnly]_vars

\* both vendored packages are placed, pkgC's entry was inserted first
C17_Witness ==
  /\ \A n \in DOMAIN tasks : ~InFlight(n)
  /\ {"pkgA", "pkgC"} \subseteq DOMAIN tasks
  /\ tasks["pkgA"].pc = "done"
  /\ tasks["pkgC"].pc = "done"
  /\ KeySeq(dependencies) = <<"pkgC", "pkgA">>
  /\ CompleteFile(fs, <<"proj", ".vendor", "pkgA", "includes.dm">>)
  /\ CompleteFile(fs, <<"proj", ".vendor", "pkgC", "a.txt">>)

(***************************************************************************)
(* C18: when mkdir or copy fails, installPackage rejects with that error   *)
(* and records nothing: the ledger is unchanged by the failed call, and a  *)
(* path map written later maps a vendored identity only if all its files   *)
(* are in its vendor directory.                                            *)
(***************************************************************************)
C18_FailedCallRecordsNothing ==
  \A n \in AsyncPackages :
    (Stepped(n) /\ tasks'[n].pc = "failed" /\ enabled) =>
       /\ tasks'[n].error = "IOError"
       /\ call'.op = "installPackage" /\ call'.pkg = n /\ call'.error = "IOError"
       /\ dependencies' = dependencies

C18_PathMapOnlyVendored ==
  CompleteFile(fs, getPathmapPath) =>
    \A i \in DOMAIN fs[getPathmapPath].data :
      LET k == fs[getPathmapPath].data[i].key IN
      HardNonWorkspace(k) =>
        \A r \in DOMAIN SourceFiles(k) :
          CompleteFile(fs, <<"proj", ".vendor", k>> \o r)

C18_IoErrorPropagates ==
  [][C18_FailedCallRecordsNothing]_vars /\ []C18_PathMapOnlyVendored

\* the copy of pkgA failed half way; the path map written afterwards omits pkgA
C18_Witness ==
  /\ FinalizeDone
  /\ "pkgA" \in DOMAIN tasks
  /\ tasks["pkgA"].pc = "failed"
  /\ tasks["pkgA"].error = "IOError"
  /\ <<"proj", ".vendor", "pkgA", "a.txt">> \in DOMAIN fs
  /\ <<"proj", ".vendor", "pkgA", "includes.dm">> \notin DOMAIN fs
  /\ "pkgA" \notin Keys(dependencies)
  /\ "pkgA" \notin DOMAIN ParsePathMap(fs[getPathmapPath].data)

=============================================================================
